---- MODULE Spec2Model ----
(***************************************************************************)
(* Order placement of the shopping backend (src/app.js, POST /orders and   *)
(* GET /orders/:id) over the Product, Order and OrderItem tables.          *)
(*                                                                         *)
(* A placement is two database interactions separated by an await: the     *)
(* findMany that loads the products (followed, synchronously, by the stock *)
(* check), and the $transaction that creates the order and decrements the  *)
(* stock.  Placements of different clients interleave at these awaits.     *)
(***************************************************************************)
EXTENDS Integers, Sequences, FiniteSets, TLC

\* ---------------------------------------------------------------- bounds
MaxItems == 2                       \* longest orderItems list of a request

\* ------------------------------------------------------------ input sets
Clients      == {"c1", "c2"}        \* concurrent HTTP requests
Products     == {"P", "Q"}          \* ids of the rows of the Product table
ProductIds   == Products \cup {"X"} \* ids a request may name; X has no row
UnitPrices   == {5}
Users        == {"U"}
\* the stock a product may start with
StockLevels  == [p \in Products |-> IF p = "P" THEN {4, 5, 10} ELSE {5}]
\* the quantities a request may ask of each product: every one of them for P,
\* the product the stock checks are followed on, one for Q and for X
Quantities   == [p \in ProductIds |-> IF p = "P" THEN {2, 3, 6} ELSE {3}]

Item     == UNION {[productId : {p}, quantity : Quantities[p], unitPrice : UnitPrices] : p \in ProductIds}
ItemList == UNION {[1..n -> Item] : n \in 1..MaxItems}

VARIABLES
    stock,        \* Product table: id -> stock
    orderTable,   \* Order table: sequence of rows [id, userId]
    itemTable,    \* OrderItem table: sequence of rows
    pc,           \* per request: where the handler is
    body,         \* per request: req.body
    products,     \* per request: the rows findMany returned
    res,          \* per request: the response sent
    initStock     \* the stock the Product table started with (history)

vars == <<stock, orderTable, itemTable, pc, body, products, res, initStock>>

NoBody == [userId |-> "none", orderItems |-> <<>>]
NoRes  == [status |-> 0]

\* ------------------------------------------------------------ arithmetic
RECURSIVE SumSeq(_)
SumSeq(s) == IF s = <<>> THEN 0 ELSE Head(s) + SumSeq(Tail(s))

\* -------------------------------------------------------- POST /orders
\* const productIds = orderItems.map((orderItem) => orderItem.productId)
productIdsOf(orderItems) == [i \in 1..Len(orderItems) |-> orderItems[i].productId]

\* prisma.product.findMany({ where: { id: { in: productIds } } })
findMany(stk, productIds) ==
    {[id |-> p, stock |-> stk[p]] : p \in {q \in DOMAIN stk : \E i \in 1..Len(productIds) : productIds[i] = q}}

\* orderItems.find(...).quantity : the quantity of the FIRST item of that product
getQuantity(orderItems, productId) ==
    LET first == CHOOSE i \in 1..Len(orderItems) :
                    /\ orderItems[i].productId = productId
                    /\ \A j \in 1..(i - 1) : orderItems[j].productId # productId
    IN orderItems[first].quantity

\* products.every((product) => stock >= getQuantity(id))
isSufficientStock(prods, orderItems) ==
    \A product \in prods : product.stock >= getQuantity(orderItems, product.id)

\* asyncHandler: the status the catch block answers with
asyncHandler(e) ==
    CASE e \in {"StructError", "PrismaClientValidationError"} -> 400
      [] e = "P2025"     -> 404
      [] e = "AuthError" -> 401
      [] OTHER           -> 500

\* ------------------------------------------------- statements of the commit
DB == [stock |-> stock, orderTable |-> orderTable, itemTable |-> itemTable]

OrderItemRow(orderId, item) ==
    [orderId |-> orderId, productId |-> item.productId,
     quantity |-> item.quantity, unitPrice |-> item.unitPrice]

\* the nested orderItems: { create: orderItems }: one INSERT per item, each
\* subject to OrderItem_productId_fkey
RECURSIVE InsertItems(_, _, _, _)
InsertItems(d, orderId, orderItems, i) ==
    IF i > Len(orderItems) THEN [db |-> d, err |-> "none"]
    ELSE IF orderItems[i].productId \notin DOMAIN d.stock
         THEN [db |-> d, err |-> "P2003"]
         ELSE InsertItems([d EXCEPT !.itemTable = Append(@, OrderItemRow(orderId, orderItems[i]))],
                          orderId, orderItems, i + 1)

\* prisma.order.create({ data: { userId, orderItems: { create: orderItems } } })
orderCreate(d, userId, orderItems) ==
    IF userId \notin Users THEN [db |-> d, err |-> "P2003"]
    ELSE LET id == Len(d.orderTable) + 1
         IN InsertItems([d EXCEPT !.orderTable = Append(@, [id |-> id, userId |-> userId])],
                        id, orderItems, 1)

\* prisma.product.update({ where: { id }, data: { stock: { decrement: n } } }):
\* UPDATE ... SET stock = stock - n, relative to the row as it is at commit time
productUpdate(d, productId, n) ==
    IF productId \notin DOMAIN d.stock THEN [db |-> d, err |-> "P2025"]
    ELSE [db |-> [d EXCEPT !.stock[productId] = @ - n], err |-> "none"]

\* const queries = productIds.map((productId) => update(decrement getQuantity(productId)))
RECURSIVE RunQueries(_, _, _)
RunQueries(d, orderItems, i) ==
    IF i > Len(orderItems) THEN [db |-> d, err |-> "none"]
    ELSE LET r == productUpdate(d, productIdsOf(orderItems)[i],
                                getQuantity(orderItems, productIdsOf(orderItems)[i]))
         IN IF r.err # "none" THEN r ELSE RunQueries(r.db, orderItems, i + 1)

\* the statements of prisma.$transaction([order.create, ...queries]) in order,
\* stopping at the first one that throws
RunStatements(d, userId, orderItems) ==
    LET c == orderCreate(d, userId, orderItems)
    IN IF c.err # "none" THEN c ELSE RunQueries(c.db, orderItems, 1)

\* a transaction that keeps what ran before the failing statement
TransactionNoRollback(d, userId, orderItems) ==
    RunStatements(d, userId, orderItems)

\* prisma.$transaction([...]): every statement applied, or none of them
Transaction(d, userId, orderItems) ==
    LET r == RunStatements(d, userId, orderItems)
    IN IF r.err # "none" THEN [db |-> d, err |-> r.err] ELSE r

\* include: { orderItems: true } : the order row with its item rows
RECURSIVE ItemsOfOrder(_, _)
ItemsOfOrder(rows, orderId) ==
    IF rows = <<>> THEN <<>>
    ELSE (IF Head(rows).orderId = orderId THEN <<Head(rows)>> ELSE <<>>)
         \o ItemsOfOrder(Tail(rows), orderId)

OrderWithItems(d, orderId) ==
    [id |-> orderId, userId |-> d.orderTable[orderId].userId,
     orderItems |-> ItemsOfOrder(d.itemTable, orderId)]

\* ------------------------------------------------------ GET /orders/:id
\* total += orderItem.unitPrice * orderItem.quantity, over the order's items
orderTotal(rows) == SumSeq([i \in 1..Len(rows) |-> rows[i].unitPrice * rows[i].quantity])

\* findUniqueOrThrow with include orderItems, then order.total = total
getOrderById(d, id) ==
    LET order == OrderWithItems(d, id)
    IN [id |-> order.id, userId |-> order.userId, orderItems |-> order.orderItems,
        total |-> orderTotal(order.orderItems)]

\* ------------------------------------------------------------------ state
Init ==
    /\ stock \in {f \in [Products -> UNION {StockLevels[p] : p \in Products}] :
                    \A p \in Products : f[p] \in StockLevels[p]}
    /\ initStock = stock
    /\ orderTable = <<>>
    /\ itemTable = <<>>
    /\ pc = [c \in Clients |-> "idle"]
    /\ body = [c \in Clients |-> NoBody]
    /\ products = [c \in Clients |-> {}]
    /\ res = [c \in Clients |-> NoRes]

\* POST /orders up to the $transaction call: read the body, load the products
\* (the await), check the stock, throw or go on to the commit
Load(c) ==
    /\ pc[c] = "idle"
    /\ \E userId \in Users, orderItems \in ItemList :
         LET loaded == findMany(stock, productIdsOf(orderItems))
         IN /\ body' = [body EXCEPT ![c] = [userId |-> userId, orderItems |-> orderItems]]
            /\ products' = [products EXCEPT ![c] = loaded]
            /\ IF isSufficientStock(loaded, orderItems)
               THEN /\ pc' = [pc EXCEPT ![c] = "validated"]
                    /\ res' = res
               ELSE /\ pc' = [pc EXCEPT ![c] = "rejected"]
                    /\ res' = [res EXCEPT ![c] = [status |-> asyncHandler("Error"),
                                                  error |-> "Insufficient Stock"]]
    /\ UNCHANGED <<stock, orderTable, itemTable, initStock>>

\* a commit that writes back the stock it loaded minus the decrement
CommitWriteBack(c) ==
    /\ pc[c] = "validated"
    /\ LET r == Transaction(DB, body[c].userId, body[c].orderItems)
           loadedStock(p) == (CHOOSE product \in products[c] : product.id = p).stock
       IN /\ stock' = IF r.err # "none" THEN stock
                      ELSE [p \in DOMAIN stock |->
                              IF \E product \in products[c] : product.id = p
                              THEN loadedStock(p) - (stock[p] - r.db.stock[p])
                              ELSE stock[p]]
          /\ orderTable' = r.db.orderTable
          /\ itemTable' = r.db.itemTable
          /\ IF r.err = "none"
             THEN /\ pc' = [pc EXCEPT ![c] = "created"]
                  /\ res' = [res EXCEPT ![c] =
                               [status |-> 201,
                                body |-> OrderWithItems(r.db, Len(r.db.orderTable))]]
             ELSE /\ pc' = [pc EXCEPT ![c] = "failed"]
                  /\ res' = [res EXCEPT ![c] = [status |-> asyncHandler(r.err),
                                                error |-> r.err]]
    /\ UNCHANGED <<body, products, initStock>>

\* POST /orders from the $transaction call on: run it, answer 201 with the
\* order, or let asyncHandler answer the error it threw
Commit(c) ==
    /\ pc[c] = "validated"
    /\ LET r == Transaction(DB, body[c].userId, body[c].orderItems)
       IN /\ stock' = r.db.stock
          /\ orderTable' = r.db.orderTable
          /\ itemTable' = r.db.itemTable
          /\ IF r.err = "none"
             THEN /\ pc' = [pc EXCEPT ![c] = "created"]
                  /\ res' = [res EXCEPT ![c] =
                               [status |-> 201,
                                body |-> OrderWithItems(r.db, Len(r.db.orderTable))]]
             ELSE /\ pc' = [pc EXCEPT ![c] = "failed"]
                  /\ res' = [res EXCEPT ![c] = [status |-> asyncHandler(r.err),
                                                error |-> r.err]]
    /\ UNCHANGED <<body, products, initStock>>

Next == \E c \in Clients : Load(c) \/ Commit(c)

Spec == Init /\ [][Next]_vars

\* ------------------------------------------------------------ properties
Finished(c) == pc[c] \in {"created", "rejected", "failed"}
PastValidation(c) == pc[c] \in {"validated", "created", "failed"}

\* the sum of the quantities of the line items of product p
SumQuantity(orderItems, p) ==
    SumSeq([i \in 1..Len(orderItems) |->
              IF orderItems[i].productId = p THEN orderItems[i].quantity ELSE 0])

\* the sum of the decrements the request's queries issue on product p
IssuedDecrement(orderItems, p) ==
    SumSeq([i \in 1..Len(orderItems) |->
              IF productIdsOf(orderItems)[i] = p THEN getQuantity(orderItems, p) ELSE 0])

\* the sum of the quantities of the committed OrderItem rows of product p
CommittedQuantity(p) ==
    SumSeq([i \in 1..Len(itemTable) |->
              IF itemTable[i].productId = p THEN itemTable[i].quantity ELSE 0])

RECURSIVE SumOver(_, _)
SumOver(S, p) ==
    IF S = {} THEN 0
    ELSE LET c == CHOOSE x \in S : TRUE
         IN IssuedDecrement(body[c].orderItems, p) + SumOver(S \ {c}, p)

Six == <<[productId |-> "P", quantity |-> 6, unitPrice |-> 5]>>

\* C1: two placements of quantity 6 of P, stock 10, in any interleaving: once
\* both have answered, exactly one was created, the other was rejected for
\* insufficient stock, and the stock of P is 4.
C1_ExactlyOneSucceeds ==
    (/\ initStock["P"] = 10
     /\ \A c \in Clients : Finished(c) /\ body[c].orderItems = Six)
    => /\ Cardinality({c \in Clients : pc[c] = "created"}) = 1
       /\ Cardinality({c \in Clients : pc[c] = "rejected"}) = 1
       /\ stock["P"] = 4

\* C2: the committed stock of every product is at least 0.
C2_StockNonNegative == \A p \in Products : stock[p] >= 0

\* C3: a request with a line item, at any position, whose quantity exceeds the
\* stock loaded for its product is rejected with the insufficient-stock error
\* (and so writes nothing).
C3_OverQuantityRejected ==
    \A c \in Clients :
        (/\ pc[c] # "idle"
         /\ \E i \in 1..Len(body[c].orderItems), product \in products[c] :
               /\ product.id = body[c].orderItems[i].productId
               /\ body[c].orderItems[i].quantity > product.stock)
        => /\ pc[c] = "rejected"
           /\ res[c].error = "Insufficient Stock"

\* C4: a placement that succeeds lowers the stock of every product by the sum
\* of the quantities of the request's line items of that product (by 0 for a
\* product the request does not name).
C4_DecrementBySum ==
    [][\A c \in Clients :
          (pc[c] = "validated" /\ pc'[c] = "created")
          => \A p \in Products :
                stock'[p] = stock[p] - SumQuantity(body[c].orderItems, p)]_vars

\* C5: the stock check compares the summed quantity per product: a request
\* whose lines of one product sum to more than its stock is rejected, and one
\* whose lines sum to exactly the stock leaves stock 0 when it commits.
C5_AggregatedCheck ==
    [][\A c \in Clients :
          /\ (/\ pc[c] = "idle" /\ pc'[c] # "idle"
              /\ \E product \in products'[c] :
                    SumQuantity(body'[c].orderItems, product.id) > product.stock)
             => pc'[c] = "rejected"
          /\ (pc[c] = "validated" /\ pc'[c] = "created")
             => \A p \in Products :
                   SumQuantity(body[c].orderItems, p) = stock[p] => stock'[p] = 0]_vars

\* C6: for every product, the initial stock minus the quantities of all
\* committed OrderItem rows of that product is at least 0.
C6_NotOversold == \A p \in Products : initStock[p] - CommittedQuantity(p) >= 0

\* C7: every step leaves the three tables as they were, or is the commit of
\* one placement that is answered 201 and applies all of its writes: the Order
\* row, one OrderItem row per line item and every stock decrement.  A step
\* that ends a placement in an error changes no table.
C7_AllOrNothing ==
    [][\/ <<stock, orderTable, itemTable>>' = <<stock, orderTable, itemTable>>
       \/ \E c \in Clients :
             /\ pc[c] = "validated" /\ pc'[c] = "created"
             /\ Len(orderTable') = Len(orderTable) + 1
             /\ Len(itemTable') = Len(itemTable) + Len(body[c].orderItems)
             /\ \A i \in 1..Len(itemTable) : itemTable'[i] = itemTable[i]
             /\ \A p \in Products :
                   stock'[p] = stock[p] - IssuedDecrement(body[c].orderItems, p)]_vars

\* a statement of one commit failed after an earlier line item of the same
\* request had been inserted, next to a commit that went through
C7_Witness ==
    \E c, k \in Clients :
        /\ pc[c] = "failed" /\ pc[k] = "created"
        /\ Len(body[c].orderItems) > 1
        /\ body[c].orderItems[1].productId \in Products
        /\ Len(orderTable) = 1
        /\ Len(itemTable) = Len(body[k].orderItems)

\* C8: a request that names a product without a row does not pass validation:
\* it is answered not-found (404) or validation (400) there.
C8_MissingProductRejectedInValidation ==
    \A c \in Clients :
        (/\ pc[c] # "idle"
         /\ \E i \in 1..Len(body[c].orderItems) :
               body[c].orderItems[i].productId \notin Products)
        => /\ pc[c] = "rejected"
           /\ res[c].status \in {400, 404}

\* C9: the body of the 201 answer has a total, the sum of unitPrice * quantity
\* over its items, equal to the total GET /orders/:id returns for the order.
C9_ResponseHasTotal ==
    \A c \in Clients :
        pc[c] = "created"
        => /\ "total" \in DOMAIN res[c].body
           /\ res[c].body.total = orderTotal(res[c].body.orderItems)
           /\ res[c].body.total = getOrderById(DB, res[c].body.id).total

\* C10: no decrement is lost: the stock of every product is its initial stock
\* minus the decrements issued by the placements that committed.
C10_NoLostDecrement ==
    \A p \in Products :
        stock[p] = initStock[p]
                   - SumOver({c \in Clients : pc[c] = "created"}, p)

\* two placements decremented P, both having loaded P at its initial stock
C10_Witness ==
    \A c \in Clients :
        /\ pc[c] = "created"
        /\ IssuedDecrement(body[c].orderItems, "P") > 0
        /\ [id |-> "P", stock |-> initStock["P"]] \in products[c]

====
